---- MODULE Spec2Model ----
(***************************************************************************)
(* Model of debugger/src/debugger/configuration.rs: SessionConfig with its *)
(* two methods validate_and_update_cwd and qualify_and_update_os_file_path *)
(* and the FromStr implementation of ConsoleLog.                           *)
(*                                                                         *)
(* A PathBuf is modelled by what std::path sees in it: an optional drive   *)
(* prefix (only on Windows targets), whether it starts at the root, and    *)
(* the sequence of its named components.  The answers of the operating     *)
(* system (Path::is_dir, env::current_dir) are inputs of each call.        *)
(***************************************************************************)
EXTENDS Integers, Sequences, FiniteSets, TLC

VARIABLES
    target_os,   \* the platform the crate is built for: "unix" or "windows"
    config,      \* the SessionConfig (self)
    last_call,   \* the method called last, its argument and the OS answers it got
    ret,         \* what the method called last returned
    error_log,   \* number of records written with log::error!
    resolved,    \* validate_and_update_cwd has been called on this SessionConfig
    s,           \* the text handed to ConsoleLog::from_str
    parsed       \* what ConsoleLog::from_str returned

vars == <<target_os, config, last_call, ret, error_log, resolved, s, parsed>>

----------------------------------------------------------------------------
(* Bounds *)

\* longest path (in named components) a caller passes in
MaxDepth == 1
\* most diagnostics the log holds
MaxLog == 2

\* names of path components
Names == {"a", "b"}

----------------------------------------------------------------------------
(* Option, Result and () *)

None == [some |-> FALSE]
Some(x) == [some |-> TRUE, val |-> x]
Ok(x) == [ok |-> TRUE, val |-> x]
Err(e) == [ok |-> FALSE, err |-> e]
Unit == [unit |-> TRUE]

----------------------------------------------------------------------------
(* std::path *)

SeqsUpTo(n) == UNION {[1..k -> Names] : k \in 0..n}

\* what a drive prefix can be on the platform
Prefixes(os) == IF os = "windows" THEN {"", "C:"} ELSE {""}

\* the paths a caller or a configuration file can name
Paths(os) == [prefix : Prefixes(os), root : BOOLEAN, comps : SeqsUpTo(MaxDepth)]

OptPaths(os) == {None} \cup {Some(p) : p \in Paths(os)}

\* PathBuf::new(): the empty path
PathBuf_new == [prefix |-> "", root |-> FALSE, comps |-> <<>>]

\* Path::is_absolute: on Unix a path that starts at the root; on Windows a
\* path that has a prefix and starts at the root (c:\windows is absolute,
\* c:temp and \temp are not)
is_absolute(p) ==
    IF target_os = "windows" THEN p.prefix # "" /\ p.root ELSE p.root

\* Path::is_relative
is_relative(p) == ~is_absolute(p)

\* PathBuf::push: an absolute path, or one with a prefix, replaces self; a
\* path with a root and no prefix replaces all of self but its prefix;
\* any other path is appended
push(self, path) ==
    IF is_absolute(path) \/ path.prefix # ""
    THEN path
    ELSE IF path.root
         THEN [prefix |-> self.prefix, root |-> TRUE, comps |-> path.comps]
         ELSE [prefix |-> self.prefix, root |-> self.root,
               comps |-> self.comps \o path.comps]

\* what env::current_dir() can answer: an absolute path, or an error
CurrentDirs(os) ==
    {Err("io")} \cup
    {Ok(p) : p \in {q \in Paths(os) : q.root /\ (os = "windows" => q.prefix # "")}}

----------------------------------------------------------------------------
(* SessionConfig *)

\* #[derive(Default)]: every Option is None, every bool false, core_index 0
DefaultConfig ==
    [cwd |-> None, program_binary |-> None, svd_file |-> None,
     probe_selector |-> None, core_index |-> 0, chip |-> None,
     protocol |-> None, speed |-> None, connect_under_reset |-> FALSE,
     allow_erase_all |-> FALSE, port |-> None, flashing_enabled |-> FALSE,
     reset_after_flashing |-> FALSE, halt_after_reset |-> FALSE,
     full_chip_erase |-> FALSE, restore_unwritten_bytes |-> FALSE,
     console_log_level |-> None, rtt |-> "RttConfig::default"]

\* a deserialized launch configuration with every field given
LaunchConfig ==
    [cwd |-> None,
     program_binary |-> Some([prefix |-> "", root |-> FALSE, comps |-> <<"a">>]),
     svd_file |-> Some([prefix |-> "", root |-> TRUE, comps |-> <<"b">>]),
     probe_selector |-> Some("0483:374b"), core_index |-> 1,
     chip |-> Some("nrf52"), protocol |-> Some("Swd"), speed |-> Some(4000),
     connect_under_reset |-> TRUE, allow_erase_all |-> TRUE,
     port |-> Some(50000), flashing_enabled |-> TRUE,
     reset_after_flashing |-> TRUE, halt_after_reset |-> TRUE,
     full_chip_erase |-> TRUE, restore_unwritten_bytes |-> TRUE,
     console_log_level |-> Some("Error"), rtt |-> "RttConfig::enabled"]

Fields == DOMAIN DefaultConfig

\* cwd_match asking the environment first: the process directory wins
\* whenever it is obtainable
cwd_match_env_first(new_cwd, is_dir, current_dir) ==
    IF current_dir.ok THEN Some(current_dir.val)
    ELSE IF new_cwd.some /\ is_dir THEN Some(new_cwd.val) ELSE None

\* cwd_match without the is_dir() test: a requested path is adopted as given
cwd_match_unvalidated(new_cwd, is_dir, current_dir) ==
    IF new_cwd.some THEN Some(new_cwd.val)
    ELSE IF current_dir.ok THEN Some(current_dir.val) ELSE None

\* cwd_match that leaves self.cwd as it was when no directory is found
cwd_match_keep(new_cwd, is_dir, current_dir) ==
    IF new_cwd.some /\ is_dir THEN Some(new_cwd.val)
    ELSE IF current_dir.ok THEN Some(current_dir.val) ELSE config.cwd

\* the match of validate_and_update_cwd: the value assigned to self.cwd,
\* given the argument and the answers of is_dir() and current_dir()
cwd_match(new_cwd, is_dir, current_dir) ==
    IF new_cwd.some
    THEN IF is_dir
         THEN Some(new_cwd.val)
         ELSE IF current_dir.ok THEN Some(current_dir.val) ELSE None
    ELSE IF current_dir.ok THEN Some(current_dir.val) ELSE None

\* the branches of validate_and_update_cwd that write log::error!
cwd_logs(new_cwd, is_dir, current_dir) ==
    IF new_cwd.some /\ is_dir THEN 0
    ELSE IF current_dir.ok THEN 0 ELSE 1

validate_and_update_cwd(new_cwd, is_dir, current_dir) ==
    /\ error_log + cwd_logs(new_cwd, is_dir, current_dir) <= MaxLog
    /\ config' = [config EXCEPT !.cwd = cwd_match(new_cwd, is_dir, current_dir)]
    /\ error_log' = error_log + cwd_logs(new_cwd, is_dir, current_dir)
    /\ last_call' = [op |-> "validate_and_update_cwd", arg |-> new_cwd,
                     is_dir |-> is_dir, current_dir |-> current_dir]
    /\ ret' = Unit
    /\ resolved' = TRUE
    /\ UNCHANGED <<target_os, s, parsed>>

\* DebuggerError::Other(anyhow!(..)) with the text "Invalid value {:?} for cwd"
\* and self.cwd as its argument
InvalidCwd(cwd) ==
    [variant |-> "Other", msg |-> "Invalid value {:?} for cwd", arg |-> cwd]

\* DebuggerError::Other(anyhow!("Missing value for file."))
MissingFile ==
    [variant |-> "Other", msg |-> "Missing value for file.", arg |-> None]

\* qualify_match that asks for self.cwd before it looks at the path
qualify_match_cwd_first(self, os_file_to_validate) ==
    IF os_file_to_validate.some
    THEN IF self.cwd.some
         THEN Ok(push(push(PathBuf_new, self.cwd.val), os_file_to_validate.val))
         ELSE Err(InvalidCwd(self.cwd))
    ELSE Err(MissingFile)

\* qualify_match that pushes the two paths in the wrong order
qualify_match_swapped(self, os_file_to_validate) ==
    IF os_file_to_validate.some
    THEN LET temp_path == os_file_to_validate.val
         IN  IF is_relative(temp_path)
             THEN IF self.cwd.some
                  THEN Ok(push(push(PathBuf_new, temp_path), self.cwd.val))
                  ELSE Err(InvalidCwd(self.cwd))
             ELSE Ok(push(PathBuf_new, temp_path))
    ELSE Err(MissingFile)

\* qualify_match that returns a relative path as it is when self.cwd is None
qualify_match_unchecked(self, os_file_to_validate) ==
    IF os_file_to_validate.some
    THEN LET temp_path == os_file_to_validate.val
         IN  IF is_relative(temp_path) /\ self.cwd.some
             THEN Ok(push(push(PathBuf_new, self.cwd.val), temp_path))
             ELSE Ok(push(PathBuf_new, temp_path))
    ELSE Err(MissingFile)

\* qualify_match that answers a missing file with the working directory
qualify_match_default(self, os_file_to_validate) ==
    IF os_file_to_validate.some
    THEN LET temp_path == os_file_to_validate.val
         IN  IF is_relative(temp_path)
             THEN IF self.cwd.some
                  THEN Ok(push(push(PathBuf_new, self.cwd.val), temp_path))
                  ELSE Err(InvalidCwd(self.cwd))
             ELSE Ok(push(PathBuf_new, temp_path))
    ELSE IF self.cwd.some THEN Ok(self.cwd.val) ELSE Err(InvalidCwd(self.cwd))

\* the match of qualify_and_update_os_file_path: its return value
qualify_match(self, os_file_to_validate) ==
    IF os_file_to_validate.some
    THEN LET temp_path == os_file_to_validate.val
         IN  IF is_relative(temp_path)
             THEN IF self.cwd.some
                  THEN Ok(push(push(PathBuf_new, self.cwd.val), temp_path))
                  ELSE Err(InvalidCwd(self.cwd))
             ELSE Ok(push(PathBuf_new, temp_path))
    ELSE Err(MissingFile)

\* qualify_and_update_os_file_path that stores the qualified path in self
qualify_and_store(os_file_to_validate) ==
    /\ ret' = qualify_match(config, os_file_to_validate)
    /\ config' = IF ret'.ok
                 THEN [config EXCEPT !.program_binary = Some(ret'.val)]
                 ELSE config
    /\ last_call' = [op |-> "qualify_and_update_os_file_path",
                     arg |-> os_file_to_validate]
    /\ UNCHANGED <<target_os, error_log, resolved, s, parsed>>

qualify_and_update_os_file_path(os_file_to_validate) ==
    /\ ret' = qualify_match(config, os_file_to_validate)
    /\ last_call' = [op |-> "qualify_and_update_os_file_path",
                     arg |-> os_file_to_validate]
    /\ UNCHANGED <<target_os, config, error_log, resolved, s, parsed>>

----------------------------------------------------------------------------
(* The session: a SessionConfig as deserialized, then any calls *)

NotParsed == [called |-> FALSE]

Init ==
    /\ target_os \in {"unix", "windows"}
    /\ \E base \in {DefaultConfig, LaunchConfig}, c \in OptPaths(target_os) :
          config = [base EXCEPT !.cwd = c]
    /\ last_call = [op |-> "new"]
    /\ ret = Unit
    /\ error_log = 0
    /\ resolved = FALSE
    /\ s = <<>>
    /\ parsed = NotParsed

Next ==
    \/ \E new_cwd \in OptPaths(target_os), is_dir \in BOOLEAN,
          current_dir \in CurrentDirs(target_os) :
          /\ (is_dir => new_cwd.some /\ new_cwd.val # PathBuf_new)
          /\ validate_and_update_cwd(new_cwd, is_dir, current_dir)
    \/ \E os_file \in OptPaths(target_os) :
          qualify_and_update_os_file_path(os_file)

Spec == Init /\ [][Next]_vars

----------------------------------------------------------------------------
(* ConsoleLog and its FromStr.  A text is a sequence of characters. *)

ConsoleLog == {"Error", "Warn", "Info", "Debug", "Trace"}

UpperCase == <<"A", "B", "C", "D", "E", "F", "G", "H", "I", "J", "K", "L", "M",
               "N", "O", "P", "Q", "R", "S", "T", "U", "V", "W", "X", "Y", "Z">>
LowerCase == <<"a", "b", "c", "d", "e", "f", "g", "h", "i", "j", "k", "l", "m",
               "n", "o", "p", "q", "r", "s", "t", "u", "v", "w", "x", "y", "z">>

\* u8::to_ascii_lowercase: 'A'..'Z' to 'a'..'z', any other character kept
char_to_ascii_lowercase(c) ==
    IF \E i \in 1..26 : UpperCase[i] = c
    THEN LowerCase[CHOOSE i \in 1..26 : UpperCase[i] = c]
    ELSE c

\* str::to_ascii_lowercase
to_ascii_lowercase(text) ==
    [i \in 1..Len(text) |-> char_to_ascii_lowercase(text[i])]

\* from_str_match on the text as given, without to_ascii_lowercase
from_str_match_case_sensitive(text) ==
    IF text = <<"e", "r", "r", "o", "r">> THEN Ok("Error")
    ELSE IF text = <<"w", "a", "r", "n">> THEN Ok("Error")
    ELSE IF text = <<"i", "n", "f", "o">> THEN Ok("Info")
    ELSE IF text = <<"d", "e", "b", "u", "g">> THEN Ok("Debug")
    ELSE IF text = <<"t", "r", "a", "c", "e">> THEN Ok("Trace")
    ELSE Err([text |-> text,
              msg |-> "is not a valid console log level. Choose from [error, warn, info, debug, or trace]."])

\* the match of from_str on the lower-cased text; the error is the String
\* built by format!, which holds the text as given
from_str_match(text) ==
    LET lower == to_ascii_lowercase(text)
    IN  IF lower = <<"e", "r", "r", "o", "r">> THEN Ok("Error")
        ELSE IF lower = <<"w", "a", "r", "n">> THEN Ok("Error")
        ELSE IF lower = <<"i", "n", "f", "o">> THEN Ok("Info")
        ELSE IF lower = <<"d", "e", "b", "u", "g">> THEN Ok("Debug")
        ELSE IF lower = <<"t", "r", "a", "c", "e">> THEN Ok("Trace")
        ELSE Err([text |-> text,
                  msg |-> "is not a valid console log level. Choose from [error, warn, info, debug, or trace]."])

from_str ==
    /\ parsed' = [called |-> TRUE, result |-> from_str_match(s)]
    /\ UNCHANGED <<target_os, config, last_call, ret, error_log, resolved, s>>

\* the tokens from_str names
Tokens ==
    {<<"e", "r", "r", "o", "r">>, <<"w", "a", "r", "n">>, <<"i", "n", "f", "o">>,
     <<"d", "e", "b", "u", "g">>, <<"t", "r", "a", "c", "e">>}

\* c in upper case, as a text writes it
Upper(c) ==
    IF \E i \in 1..26 : LowerCase[i] = c
    THEN UpperCase[CHOOSE i \in 1..26 : LowerCase[i] = c]
    ELSE c

\* text is word written in some mix of upper and lower case
IsCasing(text, word) ==
    /\ Len(text) = Len(word)
    /\ \A i \in 1..Len(word) : text[i] \in {word[i], Upper(word[i])}

\* every way of writing word in upper and lower case
Casings(word) ==
    {t \in [1..Len(word) -> {word[i] : i \in 1..Len(word)}
                             \cup {Upper(word[i]) : i \in 1..Len(word)}] :
        IsCasing(t, word)}

\* texts that are no token in any casing
OtherTexts ==
    {<<>>, <<"b", "o", "g", "u", "s">>, <<"w", "a", "r", "n", "i", "n", "g">>,
     <<"e", "r", "r">>, <<"W", "A", "R", "N", " ">>, <<" ", "i", "n", "f", "o">>,
     <<"i", "n", "f", "0">>, <<"o", "f", "f">>, <<"E", "r", "r", "o", "r", "s">>,
     <<"d", "e", "b", "u", "g", "!">>, <<"T", "R", "A", "C", "3">>, <<"1">>}

LogTexts == UNION {Casings(w) : w \in Tokens} \cup OtherTexts

InitLog ==
    /\ target_os = "unix"
    /\ config = DefaultConfig
    /\ last_call = [op |-> "new"]
    /\ ret = Unit
    /\ error_log = 0
    /\ resolved = FALSE
    /\ s \in LogTexts
    /\ parsed = NotParsed

NextLog == from_str

SpecLog == InitLog /\ [][NextLog]_vars

----------------------------------------------------------------------------
(* Properties *)

V == "validate_and_update_cwd"
Q == "qualify_and_update_os_file_path"

\* the components of a path as Path::components lists them: the prefix,
\* the root, then the names
Components(p) ==
    (IF p.prefix # "" THEN <<p.prefix>> ELSE <<>>)
    \o (IF p.root THEN <<"/">> ELSE <<>>)
    \o p.comps

\* a relative path with neither a root nor a prefix
IsPlain(p) == ~p.root /\ p.prefix = ""

\* C1: after validate_and_update_cwd(Some(d)) with d an existing directory,
\* cwd is Some(d), whatever cwd was before and whatever current_dir() would
\* have answered.
C1_AdoptsExistingDirectory ==
    (last_call.op = V /\ last_call.is_dir) => config.cwd = last_call.arg

\* an existing directory was adopted although the process directory was
\* obtainable and is another path
C1_Witness ==
    /\ last_call.op = V /\ last_call.is_dir
    /\ last_call.current_dir.ok
    /\ Some(last_call.current_dir.val) # last_call.arg
    /\ config.cwd = last_call.arg

\* C2: after validate_and_update_cwd(None), or (Some(path)) with path no
\* existing directory, cwd is the process current directory when
\* current_dir() answers one.
C2_FallsBackToCurrentDir ==
    (last_call.op = V /\ ~last_call.is_dir /\ last_call.current_dir.ok)
        => config.cwd = Some(last_call.current_dir.val)

\* a requested path that is no directory was replaced by another path
C2_Witness ==
    /\ last_call.op = V /\ ~last_call.is_dir /\ last_call.current_dir.ok
    /\ last_call.arg.some
    /\ last_call.arg.val # last_call.current_dir.val
    /\ config.cwd = Some(last_call.current_dir.val)

\* C3: a call of validate_and_update_cwd that finds no directory (nothing
\* usable requested, current_dir() fails) ends with cwd None whatever it
\* was, writes one log::error! record and returns ().
C3_SoftFailure ==
    [][(last_call'.op = V /\ ~last_call'.is_dir /\ ~last_call'.current_dir.ok)
          => (/\ config'.cwd = None
              /\ error_log' = error_log + 1
              /\ ret' = Unit)]_vars

\* the soft failure happened on a requested path
C3_Witness ==
    /\ last_call.op = V /\ ~last_call.is_dir /\ ~last_call.current_dir.ok
    /\ last_call.arg.some
    /\ config.cwd = None
    /\ error_log >= 1

\* C4: qualify_and_update_os_file_path(Some(p)) with p absolute returns
\* Ok(p), also when cwd is None.
C4_AbsoluteUnchanged ==
    (last_call.op = Q /\ last_call.arg.some /\ is_absolute(last_call.arg.val))
        => ret = Ok(last_call.arg.val)

\* an absolute path came back while cwd is None
C4_Witness ==
    /\ last_call.op = Q /\ last_call.arg.some /\ is_absolute(last_call.arg.val)
    /\ config.cwd = None
    /\ ret = Ok(last_call.arg.val)

\* C5 as claimed: for every relative p and cwd Some(d), the call returns
\* Ok of d's components followed by p's components.
C5_Original ==
    (last_call.op = Q /\ last_call.arg.some /\ is_relative(last_call.arg.val)
     /\ config.cwd.some)
        => /\ ret.ok
           /\ Components(ret.val) =
                 Components(config.cwd.val) \o Components(last_call.arg.val)

\* C5 as amended: for every relative p that has neither a root nor a prefix
\* (on Unix: every relative p) and cwd Some(d), the call returns Ok of d's
\* components followed by p's components.
C5_JoinsPlainRelative ==
    (last_call.op = Q /\ last_call.arg.some /\ is_relative(last_call.arg.val)
     /\ IsPlain(last_call.arg.val) /\ config.cwd.some)
        => /\ ret.ok
           /\ Components(ret.val) =
                 Components(config.cwd.val) \o Components(last_call.arg.val)

\* a named relative path was joined to a named absolute directory
C5_Witness ==
    /\ last_call.op = Q /\ last_call.arg.some
    /\ IsPlain(last_call.arg.val) /\ last_call.arg.val.comps # <<>>
    /\ config.cwd.some /\ is_absolute(config.cwd.val)
    /\ config.cwd.val.comps # <<>>
    /\ ret.ok
    /\ ret.val.comps = config.cwd.val.comps \o last_call.arg.val.comps

\* C6: once validate_and_update_cwd has been called, every path
\* qualify_and_update_os_file_path returns as Ok is absolute.
C6_QualifiedIsAbsolute ==
    (resolved /\ last_call.op = Q /\ ret.ok) => is_absolute(ret.val)

\* C7 as claimed: with cwd None a relative path fails, with an error of
\* another type than the one a missing path fails with.
C7_Original ==
    (last_call.op = Q /\ last_call.arg.some /\ is_relative(last_call.arg.val)
     /\ ~config.cwd.some)
        => /\ ~ret.ok
           /\ ret.err.variant # MissingFile.variant

\* C7 as amended: with cwd None a relative path fails with
\* DebuggerError::Other holding the invalid-cwd message and the cwd value;
\* the error has the variant a missing path fails with and differs from it
\* in the message alone.
C7_RelativeNeedsCwd ==
    (last_call.op = Q /\ last_call.arg.some /\ is_relative(last_call.arg.val)
     /\ ~config.cwd.some)
        => /\ ~ret.ok
           /\ ret.err = [variant |-> "Other",
                         msg |-> "Invalid value {:?} for cwd", arg |-> None]
           /\ ret.err.variant = MissingFile.variant
           /\ ret.err.msg # MissingFile.msg

\* a named relative path failed after validate_and_update_cwd left cwd None
C7_Witness ==
    /\ last_call.op = Q /\ last_call.arg.some /\ is_relative(last_call.arg.val)
    /\ last_call.arg.val.comps # <<>>
    /\ resolved /\ ~config.cwd.some
    /\ ~ret.ok

\* C8: qualify_and_update_os_file_path(None) fails with the missing-file
\* error, with cwd set or not, and returns no path.
C8_NoneIsMissing ==
    (last_call.op = Q /\ ~last_call.arg.some)
        => /\ ~ret.ok
           /\ ret.err = [variant |-> "Other",
                         msg |-> "Missing value for file.", arg |-> None]

\* None failed while cwd was set
C8_Witness ==
    /\ last_call.op = Q /\ ~last_call.arg.some
    /\ config.cwd.some
    /\ ~ret.ok

\* the level a token names, "warn" naming Error
LevelOf(word) ==
    IF word = <<"e", "r", "r", "o", "r">> THEN "Error"
    ELSE IF word = <<"w", "a", "r", "n">> THEN "Error"
    ELSE IF word = <<"i", "n", "f", "o">> THEN "Info"
    ELSE IF word = <<"d", "e", "b", "u", "g">> THEN "Debug"
    ELSE "Trace"

\* C9: from_str answers every casing of error, info, debug and trace with
\* the level of that name, every casing of warn with Error, never Warn, and
\* any other text with an error that holds the text as given.
C9_ParseLogLevel ==
    parsed.called =>
        /\ \A w \in Tokens : IsCasing(s, w) => parsed.result = Ok(LevelOf(w))
        /\ (\A w \in Tokens : ~IsCasing(s, w))
              => (~parsed.result.ok /\ parsed.result.err.text = s)
        /\ parsed.result # Ok("Warn")

\* a mixed-case warn was parsed
C9_Witness ==
    /\ parsed.called
    /\ s = <<"W", "a", "R", "n">>
    /\ parsed.result = Ok("Error")

\* C10: a call of qualify_and_update_os_file_path changes no field of the
\* SessionConfig, and a call of validate_and_update_cwd none but cwd.
C10_Frame ==
    [][/\ \A f \in Fields \ {"cwd"} : config'[f] = config[f]
       /\ (last_call'.op = Q => config' = config)]_vars

\* both methods have been called on a configuration with every field set,
\* the second returned a path, and the fields still hold what they held
C10_Witness ==
    /\ resolved /\ last_call.op = Q /\ ret.ok
    /\ config.program_binary.some /\ config.program_binary.val # ret.val
    /\ \A f \in Fields \ {"cwd"} : config[f] = LaunchConfig[f]

====
